---- MODULE Spec2Model ----
(***************************************************************************)
(* The eight example workflows of the repository, run by the graph         *)
(* executor they are compiled for.  Every workflow is a graph declaration  *)
(* (addNode / addEdge / addConditionalEdges), a handful of step functions  *)
(* and at most one router.  A run is a sequence of supersteps: the nodes   *)
(* scheduled for a superstep all read the state as it was when the         *)
(* superstep began, finish in any order, and their partial updates are     *)
(* merged, in completion order, only when all of them have finished; the   *)
(* nodes their outgoing edges and routers name form the next superstep.    *)
(* END is a sentinel without a step function: the run returns when a       *)
(* superstep schedules no registered node.                                 *)
(*                                                                         *)
(* Encoding of values.                                                     *)
(*   - A state is a record holding the fields that are set; a field that   *)
(*     is not in the record reads as JavaScript's undefined.               *)
(*   - A step's output is [vals |-> fields it sets, clear |-> fields it    *)
(*     returns as undefined].                                              *)
(*   - Text produced by the LLM is a token ("t1", "f1", ...); the string   *)
(*     "undefined" stands for undefined inside sequences and string        *)
(*     fields.                                                             *)
(*   - bmi and average_score are kept in hundredths, so 18.5 is 1850, and   *)
(*     the essay scores in thousandths, so 0.926 is 926.                   *)
(***************************************************************************)
EXTENDS Integers, Sequences, FiniteSets, TLC

VARIABLES
    wf,        \* the workflow being invoked
    input,     \* the record handed to invoke() for the current run
    firstInput,\* the record handed to the first invoke()
    state,     \* the shared state of the running workflow
    pending,   \* nodes scheduled in the current superstep, not yet started
    running,   \* started nodes -> the state snapshot they were called with
    writes,    \* outputs of the finished nodes of this superstep, in completion order
    phase,     \* "running", "done" (invoke returned) or "failed" (invoke rejected)
    returned,  \* {} until invoke returns, then { the returned state }
    trace,     \* the current run's log: the steps that settled and the routes taken
    step,      \* number of the current superstep
    reinvoked  \* whether the current run was started from a returned state

vars == <<wf, input, firstInput, state, pending, running, writes, phase,
          returned, trace, step, reinvoked>>

----------------------------------------------------------------------------
(* Bounds of the model *)

MaxSteps == 5      \* supersteps explored per run
MaxCoef == 2       \* quadratic coefficients range over -MaxCoef..MaxCoef
MaxIter == 2       \* iteration and max_iteration range over 0..MaxIter

----------------------------------------------------------------------------
(* Sentinels and small helpers *)

START == "__start__"
END == "__end__"
Undefined == "undefined"

Workflows == {"qa", "blog", "bmi", "cricket", "essay", "quadratic", "sentiment", "post"}

Restrict(rec, keys) == [k \in keys |-> rec[k]]

Has(s, f) == f \in DOMAIN s

\* s.f for a string- or sequence-valued field; undefined when unset
Read(s, f) == IF Has(s, f) THEN s[f] ELSE Undefined

\* (x || []) for a sequence-valued field
OrEmpty(s, f) == IF Has(s, f) THEN s[f] ELSE << >>

Out(vals) == [vals |-> vals, clear |-> {}]

\* an output whose fields in `maybe` are dropped to `clear` when they are undefined
OutMaybe(full, maybe) ==
    LET undef == {k \in maybe : full[k] = Undefined}
    IN [vals |-> Restrict(full, DOMAIN full \ undef), clear |-> undef]

Returns(o) == [throws |-> FALSE, out |-> o]
Throws == [throws |-> TRUE]

RECURSIVE SumSeq(_)
SumSeq(s) == IF s = << >> THEN 0 ELSE Head(s) + SumSeq(Tail(s))

Abs(x) == IF x < 0 THEN -x ELSE x

\* the exact quotient num / den, den > 0, rounded to the nearest integer,
\* halves towards +infinity
RoundDiv(num, den) == (2 * num + den) \div (2 * den)

Last(s) == s[Len(s)]

IsPrefix(p, s) == Len(p) <= Len(s) /\ SubSeq(s, 1, Len(p)) = p

----------------------------------------------------------------------------
(* JavaScript numbers.  A number is an IEEE 754 double: every division,
   multiplication and addition yields the exact result rounded to 53
   significant bits, ties to even.  The significand does not fit an integer of
   the model checker, so it is kept as a sequence of limbs, least significant
   first, in base 2^LimbBits; a double is [sig |-> limbs, exp |-> e] and
   stands for sig * 2^e.  Only non-negative values in the normal range occur. *)

LimbBits == 15
LimbBase == 2 ^ LimbBits
SigBits == 53          \* the precision of a double
GuardBits == 75        \* bits a dividend is extended by before a division

\* limbs without leading zeros
RECURSIVE BigNorm(_)
BigNorm(a) ==
    IF a # << >> /\ a[Len(a)] = 0 THEN BigNorm(SubSeq(a, 1, Len(a) - 1)) ELSE a

RECURSIVE ToBig(_)
ToBig(n) == IF n = 0 THEN << >> ELSE <<n % LimbBase>> \o ToBig(n \div LimbBase)

\* the value of limbs that are known to fit an integer
RECURSIVE ToInt(_)
ToInt(a) == IF a = << >> THEN 0 ELSE a[1] + LimbBase * ToInt(Tail(a))

RECURSIVE BigMulCarry(_, _, _)
BigMulCarry(a, c, carry) ==
    IF a = << >> THEN ToBig(carry)
    ELSE LET x == a[1] * c + carry
         IN <<x % LimbBase>> \o BigMulCarry(Tail(a), c, x \div LimbBase)

\* a * c for 0 <= c <= LimbBase
BigMulSmall(a, c) == BigNorm(BigMulCarry(a, c, 0))

RECURSIVE BigAddCarry(_, _, _)
BigAddCarry(a, b, carry) ==
    IF a = << >> /\ b = << >> THEN ToBig(carry)
    ELSE LET x == (IF a = << >> THEN 0 ELSE a[1]) + (IF b = << >> THEN 0 ELSE b[1]) + carry
         IN <<x % LimbBase>>
            \o BigAddCarry(IF a = << >> THEN a ELSE Tail(a),
                           IF b = << >> THEN b ELSE Tail(b), x \div LimbBase)

BigAdd(a, b) == BigNorm(BigAddCarry(a, b, 0))

\* long division by 0 < d <= LimbBase, from the most significant limb down
RECURSIVE BigDivFrom(_, _, _, _)
BigDivFrom(a, d, i, rem) ==
    IF i = 0 THEN [q |-> << >>, r |-> rem]
    ELSE LET x == rem * LimbBase + a[i]
             rest == BigDivFrom(a, d, i - 1, x % d)
         IN [q |-> Append(rest.q, x \div d), r |-> rest.r]

BigDivSmall(a, d) ==
    LET res == BigDivFrom(a, d, Len(a), 0)
    IN [q |-> BigNorm(res.q), r |-> res.r]

Zeros(n) == [i \in 1..n |-> 0]

\* a * 2^s
BigShl(a, s) ==
    IF a = << >> THEN a
    ELSE Zeros(s \div LimbBits) \o BigMulSmall(a, 2 ^ (s % LimbBits))

\* floor(a / 2^s)
BigShr(a, s) ==
    IF s \div LimbBits >= Len(a) THEN << >>
    ELSE BigDivSmall(SubSeq(a, s \div LimbBits + 1, Len(a)), 2 ^ (s % LimbBits)).q

RECURSIVE BitLen(_)
BitLen(n) == IF n = 0 THEN 0 ELSE 1 + BitLen(n \div 2)

BigBitLen(a) == IF a = << >> THEN 0 ELSE LimbBits * (Len(a) - 1) + BitLen(a[Len(a)])

BigIsOdd(a) == a # << >> /\ a[1] % 2 = 1

\* sig * 2^e, or a little more when inexact, rounded to SigBits bits, ties to
\* even; an inexact sig must be longer than SigBits + 1 bits
RoundToDouble(sig, e, inexact) ==
    LET drop == BigBitLen(sig) - SigBits
    IN IF drop <= 0 THEN [sig |-> sig, exp |-> e]
       ELSE LET kept == BigShr(sig, drop)
                half == BigIsOdd(BigShr(sig, drop - 1))
                below == inexact \/ BigShl(BigShr(sig, drop - 1), drop - 1) # sig
                up == half /\ (below \/ BigIsOdd(kept))
            IN [sig |-> IF up THEN BigAdd(kept, <<1>>) ELSE kept, exp |-> e + drop]

\* an integer as a double
FromInt(n) == [sig |-> ToBig(n), exp |-> 0]

\* x / d for a double x and an integer 0 < d <= LimbBase
FDivInt(x, d) ==
    LET res == BigDivSmall(BigShl(x.sig, GuardBits), d)
    IN RoundToDouble(res.q, x.exp - GuardBits, res.r # 0)

\* x * c for a double x and an integer 0 <= c <= LimbBase
FMulInt(x, c) == RoundToDouble(BigMulSmall(x.sig, c), x.exp, FALSE)

\* x + y
FAdd(x, y) ==
    LET e == IF x.exp < y.exp THEN x.exp ELSE y.exp
    IN RoundToDouble(BigAdd(BigShl(x.sig, x.exp - e), BigShl(y.sig, y.exp - e)),
                     e, FALSE)

\* floor(x + 1/2), exactly
FloorHalfUp(x) ==
    IF x.exp >= 0 THEN ToInt(BigShl(x.sig, x.exp))
    ELSE ToInt(BigShr(BigAdd(x.sig, BigShl(<<1>>, -x.exp - 1)), -x.exp))

\* Math.round(x): the nearest integer, halves towards +infinity
MathRound(x) == FloorHalfUp(x)

\* parseFloat(x.toFixed(2)) in hundredths: the n with n/100 nearest to x, the
\* larger n when two are equally near
ToFixed2(x) == FloorHalfUp([sig |-> BigMulSmall(x.sig, 100), exp |-> x.exp])

\* the double a decimal number with three decimals is read as, given in
\* thousandths
FromThousandths(v) == FDivInt(FromInt(v), 1000)

----------------------------------------------------------------------------
(* Graph declarations: addNode, addEdge, addConditionalEdges *)

QaNodes == {"ask_question", "llm_answer"}
QaEdges == {<<START, "ask_question">>, <<"ask_question", "llm_answer">>,
            <<"llm_answer", END>>}

BlogNodes == {"generate_outline", "blog_post"}
BlogEdges == {<<START, "generate_outline">>, <<"generate_outline", "blog_post">>,
              <<"blog_post", END>>}

BmiNodes == {"calculate_bmi", "label_bmi"}
\* both steps wired to START
BmiEdges_Parallel == {<<START, "calculate_bmi">>, <<START, "label_bmi">>,
                      <<"label_bmi", END>>}

BmiEdges == {<<START, "calculate_bmi">>, <<"calculate_bmi", "label_bmi">>,
             <<"label_bmi", END>>}

CricketNodes == {"calculate_strike_rate", "calculate_boundary_percentage",
                 "calculate_balls_per_boundary", "generate_summary"}
\* calculate_balls_per_boundary wired after calculate_strike_rate instead of START
CricketEdges_Chained ==
    {<<START, "calculate_strike_rate">>,
     <<START, "calculate_boundary_percentage">>,
     <<"calculate_strike_rate", "calculate_balls_per_boundary">>,
     <<"calculate_strike_rate", "generate_summary">>,
     <<"calculate_boundary_percentage", "generate_summary">>,
     <<"calculate_balls_per_boundary", "generate_summary">>,
     <<"calculate_balls_per_boundary", END>>}

\* the three branches wired to END alone, the summary left without an edge
CricketEdges_NoSummary ==
    {<<START, "calculate_strike_rate">>,
     <<START, "calculate_boundary_percentage">>,
     <<START, "calculate_balls_per_boundary">>,
     <<"calculate_strike_rate", END>>,
     <<"calculate_boundary_percentage", END>>,
     <<"calculate_balls_per_boundary", END>>}

CricketEdges == {<<START, "calculate_strike_rate">>,
                 <<START, "calculate_boundary_percentage">>,
                 <<START, "calculate_balls_per_boundary">>,
                 <<"calculate_strike_rate", "generate_summary">>,
                 <<"calculate_boundary_percentage", "generate_summary">>,
                 <<"calculate_balls_per_boundary", "generate_summary">>,
                 <<"calculate_balls_per_boundary", END>>}

EssayNodes == {"evaluate_clarity", "depth_analysis", "language_analysis",
               "aggregate_analysis"}
\* language_analysis wired after evaluate_clarity instead of START
EssayEdges_Chained == {<<START, "evaluate_clarity">>,
                       <<START, "depth_analysis">>,
                       <<"evaluate_clarity", "language_analysis">>,
                       <<"evaluate_clarity", "aggregate_analysis">>,
                       <<"depth_analysis", "aggregate_analysis">>,
                       <<"language_analysis", "aggregate_analysis">>,
                       <<"aggregate_analysis", END>>}

EssayEdges == {<<START, "evaluate_clarity">>,
               <<START, "depth_analysis">>,
               <<START, "language_analysis">>,
               <<"evaluate_clarity", "aggregate_analysis">>,
               <<"depth_analysis", "aggregate_analysis">>,
               <<"language_analysis", "aggregate_analysis">>,
               <<"aggregate_analysis", END>>}

QuadraticNodes == {"show_equation", "calculate_discriminant", "real_roots",
                   "repeated_roots", "no_real_roots"}
\* calculate_discriminant wired to START as well
QuadraticEdges_TwoStarts == {<<START, "show_equation">>,
                             <<START, "calculate_discriminant">>,
                             <<"show_equation", "calculate_discriminant">>,
                             <<"real_roots", END>>, <<"no_real_roots", END>>,
                             <<"repeated_roots", END>>}

QuadraticEdges == {<<START, "show_equation">>,
                   <<"show_equation", "calculate_discriminant">>,
                   <<"real_roots", END>>, <<"no_real_roots", END>>,
                   <<"repeated_roots", END>>}

SentimentNodes == {"review_sentiment", "run_diagnosis", "negative_response",
                   "positive_response"}
SentimentEdges == {<<START, "review_sentiment">>,
                   <<"run_diagnosis", "negative_response">>,
                   <<"negative_response", END>>, <<"positive_response", END>>}

PostNodes == {"generate_post", "evaluate_post", "optimize_post"}
\* generate_post wired to optimize_post as well
PostEdges_GenerateToOptimize ==
    {<<START, "generate_post">>, <<"generate_post", "evaluate_post">>,
     <<"generate_post", "optimize_post">>, <<"evaluate_post", "optimize_post">>}

\* the rewrite sent back to evaluate_post
PostEdges_Looped ==
    {<<START, "generate_post">>, <<"generate_post", "evaluate_post">>,
     <<"evaluate_post", "optimize_post">>, <<"optimize_post", "evaluate_post">>}

PostEdges == {<<START, "generate_post">>, <<"generate_post", "evaluate_post">>,
              <<"evaluate_post", "optimize_post">>}

\* the label -> destination map given to addConditionalEdges for evaluate_post
PostLabelMap(label) ==
    CASE label = "approved" -> END
      [] label = "needs_improvement" -> "optimize_post"
      [] OTHER -> label

Nodes(w) ==
    CASE w = "qa" -> QaNodes
      [] w = "blog" -> BlogNodes
      [] w = "bmi" -> BmiNodes
      [] w = "cricket" -> CricketNodes
      [] w = "essay" -> EssayNodes
      [] w = "quadratic" -> QuadraticNodes
      [] w = "sentiment" -> SentimentNodes
      [] w = "post" -> PostNodes

Edges(w) ==
    CASE w = "qa" -> QaEdges
      [] w = "blog" -> BlogEdges
      [] w = "bmi" -> BmiEdges
      [] w = "cricket" -> CricketEdges
      [] w = "essay" -> EssayEdges
      [] w = "quadratic" -> QuadraticEdges
      [] w = "sentiment" -> SentimentEdges
      [] w = "post" -> PostEdges

\* the nodes that addConditionalEdges was called for
RouterNodes(w) ==
    CASE w = "quadratic" -> {"calculate_discriminant"}
      [] w = "sentiment" -> {"review_sentiment"}
      [] w = "post" -> {"evaluate_post"}
      [] OTHER -> {}

AllNodes == UNION {Nodes(w) : w \in Workflows}

----------------------------------------------------------------------------
(* What the outside world hands to a step *)

\* a step that asks nothing of the outside world
NoResponse == [kind |-> "none"]

\* process.argv.slice(2).join(" ")
ArgvQuestions == {[kind |-> "argv", text |-> q] : q \in {"", "q1"}}

\* The parsed body callBedrockLLM returns in the two prompt-chaining files:
\* the call rejects, the body is null, has no content field, has an empty
\* content array, has a first content item without text, or carries text.
OutputShapes ==
    {[shape |-> sh, text |-> Undefined] :
        sh \in {"throw", "nullish", "no_content", "empty_content", "no_text"}}
    \cup {[shape |-> "text", text |-> "a1"]}

\* What callBedrockLLM returns where it returns output?.content[0]?.text:
\* the call rejects, or yields undefined, or yields a text.
PlainTexts(texts) ==
    {[kind |-> "throw"], [kind |-> "undefined"]}
    \cup {[kind |-> "text", text |-> x] : x \in texts}

\* A reply that is meant to be JSON: the text may fail JSON.parse, may parse
\* to null, or may parse to an object
NotJson == {[kind |-> "throw"], [kind |-> "undefined"], [kind |-> "text"],
            [kind |-> "json_null"]}

EvaluationReplies ==
    NotJson \cup
    {[kind |-> "json", evaluation |-> e, feedback |-> f] :
        e \in {"approved", "needs_improvement", "maybe", Undefined},
        f \in {"f1", Undefined}}

SentimentReplies ==
    NotJson \cup
    {[kind |-> "json", sentiment |-> x] :
        x \in {"positive", "negative", "neutral", Undefined}}

DiagnosisReplies ==
    NotJson \cup
    {[kind |-> "json", issue_type |-> i, tone |-> "angry", urgency |-> u] :
        i \in {"Bug", Undefined}, u \in {"high", Undefined}}

\* score: a number, given in thousandths (one of `valid`, or just below 0, or
\* just above 10), or something that is not a number
ScoreReplies(valid) ==
    NotJson \cup
    {[kind |-> "json", feedback |-> "g1", scoreIsNumber |-> TRUE, score |-> v] :
        v \in valid \cup {-1, 10001}}
    \cup {[kind |-> "json", feedback |-> "g1", scoreIsNumber |-> FALSE, score |-> 0],
          [kind |-> "json", feedback |-> Undefined, scoreIsNumber |-> TRUE, score |-> 7000]}

----------------------------------------------------------------------------
(* 01-sequential-workflows: question and answer *)

Fallback == "No answer returned"

\* output?.content?.[0]?.text ?? "No answer returned"
SafeText(o) == IF o.shape = "text" THEN o.text ELSE Fallback

askQuestion(s, r) == Returns(Out([question |-> r.text]))

getAnswer(s, r) ==
    IF r.shape = "throw" THEN Throws
    ELSE Returns(Out([answer |-> SafeText(r)]))

(* prompt chaining: outline, then blog post *)

generateOutline(s, r) ==
    IF r.shape = "throw" THEN Throws
    ELSE Returns(Out([outline |-> SafeText(r)]))

\* response?.content[0]?.text ?? "No answer returned": indexing a missing
\* content field is a TypeError
generateBlogPost(s, r) ==
    IF r.shape \in {"throw", "no_content"} THEN Throws
    ELSE Returns(Out([blogPost |-> SafeText(r)]))

(* BMI: weight_kg in kilograms, height_m and bmi in hundredths *)

\* Math.round(bmi * 100) / 100: at the heights and weights of the model
\* weight / height^2 * 100 is never within a rounding error of a half, so
\* the double rounds as the exact quotient does
calculateBMI(s) ==
    Returns(Out([bmi |-> RoundDiv(s.weight_kg * 1000000, s.height_m * s.height_m)]))

\* every comparison with an unset bmi is false
labelBMI(s) ==
    LET lt(x) == Has(s, "bmi") /\ s.bmi < x
        category ==
            IF lt(1850) THEN "Underweight"
            ELSE IF lt(2500) THEN "Normal weight"
            ELSE IF lt(3000) THEN "Overweight"
            ELSE IF lt(3500) THEN "Obese (Class I)"
            ELSE IF lt(4000) THEN "Obese (Class II)"
            ELSE "Obese (Class III)"
    IN Returns(Out([category |-> category]))

----------------------------------------------------------------------------
(* 02-parallel-workflows: cricket batting statistics *)

\* (x / y) * 100 on integers x and y > 0: a division, then a multiplication
TimesHundred(x, y) == FMulInt(FDivInt(FromInt(x), y), 100)

calculateStrikeRate(s) ==
    IF s.ballsPlayed = 0 THEN Returns(Out([strikeRate |-> 0]))
    ELSE LET strikeRate == TimesHundred(s.runsScored, s.ballsPlayed)
         IN Returns(Out([strikeRate |-> MathRound(strikeRate)]))

\* the whole state returned along with the new value
calculateBoundaryPercentage_WholeState(s) ==
    LET pct == IF s.runsScored = 0 THEN 0
               ELSE MathRound(TimesHundred(s.foursHit * 4 + s.sixesHit * 6,
                                           s.runsScored))
    IN Returns(Out([f \in DOMAIN s \cup {"boundaryPercentage"} |->
                        IF f = "boundaryPercentage" THEN pct ELSE s[f]]))

calculateBoundaryPercentage(s) ==
    IF s.runsScored = 0 THEN Returns(Out([boundaryPercentage |-> 0]))
    ELSE LET boundaryRuns == s.foursHit * 4 + s.sixesHit * 6
             boundaryPercentage == TimesHundred(boundaryRuns, s.runsScored)
         IN Returns(Out([boundaryPercentage |-> MathRound(boundaryPercentage)]))

calculateBallsPerBoundary(s) ==
    LET totalBoundaries == s.foursHit + s.sixesHit
    IN IF totalBoundaries = 0 THEN Returns(Out([ballsPerBoundary |-> s.ballsPlayed]))
       ELSE LET ballsPerBoundary == FDivInt(FromInt(s.ballsPlayed), totalBoundaries)
            IN Returns(Out([ballsPerBoundary |-> MathRound(ballsPerBoundary)]))

\* the summary text is kept as the tuple of values interpolated into it
generateSummary(s) ==
    Returns(Out([summary |->
        <<s.runsScored, s.ballsPlayed, s.foursHit, s.sixesHit,
          IF Has(s, "strikeRate") THEN <<s.strikeRate>> ELSE << >>,
          IF Has(s, "boundaryPercentage") THEN <<s.boundaryPercentage>> ELSE << >>,
          IF Has(s, "ballsPerBoundary") THEN <<s.ballsPerBoundary>> ELSE << >> >>]))

(* 02-parallel-workflows: essay evaluation *)

MinScore == 0
MaxScore == 10

\* scores are kept in thousandths
ScoreUnit == 1000

\* a schema without the .max(10)
EvaluationParses_NoMax(r) ==
    /\ r.kind = "json"
    /\ r.feedback # Undefined
    /\ r.scoreIsNumber
    /\ r.score >= MinScore * ScoreUnit

\* EvaluationSchema.parse(JSON.parse(response)) succeeds
EvaluationParses(r) ==
    /\ r.kind = "json"
    /\ r.feedback # Undefined
    /\ r.scoreIsNumber
    /\ r.score >= MinScore * ScoreUnit
    /\ r.score <= MaxScore * ScoreUnit

\* a reducer that keeps the update alone
ScoresReducer_Overwrite(current, update) == update

\* the reducer of individual_scores
ScoresReducer(current, update) == current \o update

evaluateClarity(s, r) ==
    IF ~EvaluationParses(r) THEN Throws
    ELSE Returns(Out([clarity_feedback |-> r.feedback,
                      individual_scores |-> <<r.score>>]))

depthAnalysis(s, r) ==
    IF ~EvaluationParses(r) THEN Throws
    ELSE Returns(Out([analysis_feedback |-> r.feedback,
                      individual_scores |-> <<r.score>>]))

languageAnalysis(s, r) ==
    IF ~EvaluationParses(r) THEN Throws
    ELSE Returns(Out([language_feedback |-> r.feedback,
                      individual_scores |-> <<r.score>>]))

\* scores.reduce((a, b) => a + b, 0), from the first score to the last
RECURSIVE SumScores(_, _)
SumScores(scores, acc) ==
    IF scores = << >> THEN acc
    ELSE SumScores(Tail(scores), FAdd(acc, FromThousandths(Head(scores))))

\* parseFloat(average.toFixed(2)), in hundredths
Average(scores) ==
    IF Len(scores) # 0
    THEN ToFixed2(FDivInt(SumScores(scores, FromInt(0)), Len(scores)))
    ELSE 0

aggregateAnalysis(s, r) ==
    IF r.kind = "throw" THEN Throws
    ELSE Returns(OutMaybe(
            [overall_feedback |-> IF r.kind = "text" THEN r.text ELSE Undefined,
             average_score |-> Average(OrEmpty(s, "individual_scores"))],
            {"overall_feedback"}))

----------------------------------------------------------------------------
(* 03-conditional-workflow: quadratic equations *)

\* the equation text is kept as the values formatQuadratic interpolates
formatQuadratic(a, b, c) ==
    [a |-> a,
     bSign |-> IF b >= 0 THEN "+" ELSE "-", b |-> Abs(b),
     cSign |-> IF c >= 0 THEN "+" ELSE "-", c |-> Abs(c)]

showEquation(s) == Returns(Out([equation |-> formatQuadratic(s.a, s.b, s.c)]))

calculateDiscriminent(s) ==
    Returns(Out([discriminant |-> s.b * s.b - 4 * s.a * s.c]))

\* the result texts are kept as the sentence they start with and the values
\* the roots are computed from
RootsText(kind, s) ==
    [text |-> kind, a |-> s.a, b |-> s.b,
     discriminant |-> IF Has(s, "discriminant") THEN <<s.discriminant>> ELSE << >>]

findRealRoots(s) == Returns(Out([result |-> RootsText("Two distinct real roots", s)]))

findRepeatedRoots(s) == Returns(Out([result |-> RootsText("One repeated real root", s)]))

findNoRealRoots(s) == Returns(Out([result |-> RootsText("No real roots", s)]))

\* the two non-zero cases exchanged
checkDiscriminantCondition_Swapped(s) ==
    IF Has(s, "discriminant") /\ s.discriminant = 0 THEN "repeated_roots"
    ELSE IF Has(s, "discriminant") /\ s.discriminant < 0 THEN "real_roots"
    ELSE "no_real_roots"

\* comparisons with an unset discriminant are false
checkDiscriminantCondition(s) ==
    IF Has(s, "discriminant") /\ s.discriminant = 0 THEN "repeated_roots"
    ELSE IF Has(s, "discriminant") /\ s.discriminant < 0 THEN "no_real_roots"
    ELSE "real_roots"

----------------------------------------------------------------------------
(* sentiment response workflow *)

\* JSON.parse(response) throws, or the property access on null does
ParsesToObject(r) == r.kind = "json"

reviewSentiment(s, r) ==
    IF ~ParsesToObject(r) THEN Throws
    ELSE Returns(OutMaybe([sentiment |-> r.sentiment], {"sentiment"}))

runDiagnosis(s, r) ==
    IF ~ParsesToObject(r) THEN Throws
    ELSE Returns(OutMaybe(
            [urgency |-> r.urgency, issue_type |-> r.issue_type, tone |-> r.tone],
            {"urgency", "issue_type", "tone"}))

\* callBedrockLLM's text, whatever it is, becomes the response
TextResponse(field, r) ==
    IF r.kind = "throw" THEN Throws
    ELSE Returns(OutMaybe(
            [x \in {field} |-> IF r.kind = "text" THEN r.text ELSE Undefined],
            {field}))

generateNegativeResponse(s, r) == TextResponse("response", r)

generatePositiveResponse(s, r) == TextResponse("response", r)

\* the destination named after the sentiment, whatever it is
checkCondition_BySentiment(s) ==
    CASE Read(s, "sentiment") = "positive" -> "positive_response"
      [] Read(s, "sentiment") = "negative" -> "negative_response"
      [] OTHER -> "neutral_response"

\* the two branches exchanged
checkCondition_Inverted(s) ==
    IF Read(s, "sentiment") = "positive" THEN "run_diagnosis"
    ELSE "positive_response"

checkCondition(s) ==
    IF Read(s, "sentiment") = "positive" THEN "positive_response"
    ELSE "run_diagnosis"

----------------------------------------------------------------------------
(* 04-iterative-workflows: post generator *)

TextOf(r) == IF r.kind = "text" THEN r.text ELSE Undefined

\* the history restarted from the new tweet
generatePost_ResetsHistory(s, r) ==
    IF r.kind = "throw" THEN Throws
    ELSE Returns(OutMaybe(
            [tweet |-> TextOf(r), tweet_history |-> <<TextOf(r)>>], {"tweet"}))

\* the first tweet counted as an iteration
generatePost_CountsIteration(s, r) ==
    IF r.kind = "throw" THEN Throws
    ELSE Returns(OutMaybe(
            [tweet |-> TextOf(r),
             tweet_history |-> Append(OrEmpty(s, "tweet_history"), TextOf(r)),
             iteration |-> s.iteration + 1],
            {"tweet"}))

generatePost(s, r) ==
    IF r.kind = "throw" THEN Throws
    ELSE Returns(OutMaybe(
            [tweet |-> TextOf(r),
             tweet_history |-> Append(OrEmpty(s, "tweet_history"), TextOf(r))],
            {"tweet"}))

\* the catch block swallows the parse error and the step returns nothing
evaluatePost_Swallows(s, r) ==
    IF ~ParsesToObject(r) THEN Returns(Out(<< >>))
    ELSE Returns(OutMaybe(
            [evaluation |-> r.evaluation,
             feedback |-> r.feedback,
             feedback_history |-> Append(OrEmpty(s, "feedback_history"), r.feedback)],
            {"evaluation", "feedback"}))

evaluatePost(s, r) ==
    IF ~ParsesToObject(r) THEN Throws
    ELSE Returns(OutMaybe(
            [evaluation |-> r.evaluation,
             feedback |-> r.feedback,
             feedback_history |-> Append(OrEmpty(s, "feedback_history"), r.feedback)],
            {"evaluation", "feedback"}))

\* a rewrite that is put in the history and not in tweet
optimizePost_KeepsTweet(s, r) ==
    IF r.kind = "throw" THEN Throws
    ELSE LET updatedIteration == s.iteration + 1
         IN Returns(Out(
                [iteration |-> updatedIteration,
                 tweet_history |-> Append(OrEmpty(s, "tweet_history"), TextOf(r))]))

optimizePost(s, r) ==
    IF r.kind = "throw" THEN Throws
    ELSE LET updatedIteration == s.iteration + 1
         IN Returns(OutMaybe(
                [iteration |-> updatedIteration,
                 tweet_history |-> Append(OrEmpty(s, "tweet_history"), TextOf(r)),
                 tweet |-> TextOf(r)],
                {"tweet"}))

\* the router without its iteration limit
checkEvalutionCondition_NoLimit(s) ==
    IF Read(s, "evaluation") = "approved" THEN "approved" ELSE "needs_improvement"

checkEvalutionCondition(s) ==
    IF s.iteration > s.max_iteration \/ Read(s, "evaluation") = "approved"
    THEN "approved"
    ELSE "needs_improvement"

----------------------------------------------------------------------------
(* The state schema of each workflow *)

\* CricketAnnotation declaring summary as well
Fields_DeclaresSummary(w) ==
    CASE w = "qa" -> {"question", "answer"}
      [] w = "blog" -> {"topicName", "outline", "blogPost"}
      [] w = "bmi" -> {"weight_kg", "height_m", "bmi", "category"}
      [] w = "cricket" -> {"runsScored", "ballsPlayed", "foursHit", "sixesHit",
                           "strikeRate", "boundaryPercentage", "ballsPerBoundary",
                           "summary"}
      [] w = "essay" -> {"essay", "language_feedback", "analysis_feedback",
                         "clarity_feedback", "overall_feedback",
                         "individual_scores", "average_score"}
      [] w = "quadratic" -> {"a", "b", "c", "equation", "discriminant", "result"}
      [] w = "sentiment" -> {"user_review", "sentiment", "issue_type", "tone",
                             "urgency", "response"}
      [] w = "post" -> {"topic", "tweet", "evaluation", "feedback", "iteration",
                        "max_iteration", "tweet_history", "feedback_history"}

Fields(w) ==
    CASE w = "qa" -> {"question", "answer"}
      [] w = "blog" -> {"topicName", "outline", "blogPost"}
      [] w = "bmi" -> {"weight_kg", "height_m", "bmi", "category"}
      [] w = "cricket" -> {"runsScored", "ballsPlayed", "foursHit", "sixesHit",
                           "strikeRate", "boundaryPercentage", "ballsPerBoundary"}
      [] w = "essay" -> {"essay", "language_feedback", "analysis_feedback",
                         "clarity_feedback", "overall_feedback",
                         "individual_scores", "average_score"}
      [] w = "quadratic" -> {"a", "b", "c", "equation", "discriminant", "result"}
      [] w = "sentiment" -> {"user_review", "sentiment", "issue_type", "tone",
                             "urgency", "response"}
      [] w = "post" -> {"topic", "tweet", "evaluation", "feedback", "iteration",
                        "max_iteration", "tweet_history", "feedback_history"}

\* the fields declared with a reducer
ReducerFields(w) == IF w = "essay" THEN {"individual_scores"} ELSE {}

\* the fields declared with a default
Defaults(w) ==
    IF w = "essay" THEN [individual_scores |-> << >>] ELSE << >>

----------------------------------------------------------------------------
(* Dispatch: the step function and the router registered under a node name *)

Responses(w, n) ==
    CASE n = "ask_question" -> ArgvQuestions
      [] n \in {"llm_answer", "generate_outline", "blog_post"} -> OutputShapes
      [] n = "evaluate_clarity" -> ScoreReplies({926})
      [] n = "depth_analysis" -> ScoreReplies({1500, 0})
      [] n = "language_analysis" -> ScoreReplies({169, 10000})
      [] n = "aggregate_analysis" -> PlainTexts({"o1"})
      [] n = "review_sentiment" -> SentimentReplies
      [] n = "run_diagnosis" -> DiagnosisReplies
      [] n \in {"negative_response", "positive_response"} -> PlainTexts({"r1"})
      [] n = "generate_post" -> PlainTexts({"t1"})
      [] n = "optimize_post" -> PlainTexts({"t2"})
      [] n = "evaluate_post" -> EvaluationReplies
      [] OTHER -> {NoResponse}

StepFn(w, n, s, r) ==
    CASE n = "ask_question" -> askQuestion(s, r)
      [] n = "llm_answer" -> getAnswer(s, r)
      [] n = "generate_outline" -> generateOutline(s, r)
      [] n = "blog_post" -> generateBlogPost(s, r)
      [] n = "calculate_bmi" -> calculateBMI(s)
      [] n = "label_bmi" -> labelBMI(s)
      [] n = "calculate_strike_rate" -> calculateStrikeRate(s)
      [] n = "calculate_boundary_percentage" -> calculateBoundaryPercentage(s)
      [] n = "calculate_balls_per_boundary" -> calculateBallsPerBoundary(s)
      [] n = "generate_summary" -> generateSummary(s)
      [] n = "evaluate_clarity" -> evaluateClarity(s, r)
      [] n = "depth_analysis" -> depthAnalysis(s, r)
      [] n = "language_analysis" -> languageAnalysis(s, r)
      [] n = "aggregate_analysis" -> aggregateAnalysis(s, r)
      [] n = "show_equation" -> showEquation(s)
      [] n = "calculate_discriminant" -> calculateDiscriminent(s)
      [] n = "real_roots" -> findRealRoots(s)
      [] n = "repeated_roots" -> findRepeatedRoots(s)
      [] n = "no_real_roots" -> findNoRealRoots(s)
      [] n = "review_sentiment" -> reviewSentiment(s, r)
      [] n = "run_diagnosis" -> runDiagnosis(s, r)
      [] n = "negative_response" -> generateNegativeResponse(s, r)
      [] n = "positive_response" -> generatePositiveResponse(s, r)
      [] n = "generate_post" -> generatePost(s, r)
      [] n = "evaluate_post" -> evaluatePost(s, r)
      [] n = "optimize_post" -> optimizePost(s, r)

\* the label the router of node n returns on state s
RouteLabel(w, n, s) ==
    CASE w = "quadratic" -> checkDiscriminantCondition(s)
      [] w = "sentiment" -> checkCondition(s)
      [] w = "post" -> checkEvalutionCondition(s)

\* the labels the return statements of the router name
RouterLabels(w) ==
    CASE w = "quadratic" -> {"repeated_roots", "no_real_roots", "real_roots"}
      [] w = "sentiment" -> {"positive_response", "run_diagnosis"}
      [] w = "post" -> {"approved", "needs_improvement"}
      [] OTHER -> {}

\* the node a label stands for: through the label map when one was given,
\* the label itself otherwise
Resolve(w, n, label) == IF w = "post" THEN PostLabelMap(label) ELSE label

----------------------------------------------------------------------------
(* The graph executor *)

\* one step output merged into the state, field by field: undeclared fields
\* are dropped, a field with a reducer is reduced, any other is overwritten
Merge(w, s, o) ==
    LET v == Restrict(o.vals, DOMAIN o.vals \cap Fields(w))
        keep == (DOMAIN s \ o.clear) \cup DOMAIN v
    IN [f \in keep |->
            IF f \notin DOMAIN v THEN s[f]
            ELSE IF f \in ReducerFields(w) THEN ScoresReducer(OrEmpty(s, f), v[f])
            ELSE v[f]]

\* the outputs of a superstep merged in completion order
RECURSIVE ApplyWrites(_, _, _)
ApplyWrites(w, s, ws) ==
    IF ws = << >> THEN s
    ELSE ApplyWrites(w, Merge(w, s, Head(ws).out), Tail(ws))

\* the state invoke() starts from: the defaults, then the input
InitialState(w, inp) == Merge(w, Defaults(w), Out(inp))

Targets(w, n) == {e[2] : e \in {d \in Edges(w) : d[1] = n}}

\* the destinations node n hands control to once its output is merged into s
Successors(w, n, s) ==
    Targets(w, n) \cup
    (IF n \in RouterNodes(w) THEN {Resolve(w, n, RouteLabel(w, n, s))} ELSE {})

RECURSIVE RouteEvents(_, _, _)
RouteEvents(w, ws, s) ==
    IF ws = << >> THEN << >>
    ELSE LET n == Head(ws).node
         IN (IF n \in RouterNodes(w)
             THEN <<[ev |-> "route", node |-> n, label |-> RouteLabel(w, n, s),
                     dest |-> Resolve(w, n, RouteLabel(w, n, s))]>>
             ELSE << >>) \o RouteEvents(w, Tail(ws), s)

\* the log entry of a superstep that hands control to END: the state it merged
EndEvents(next, merged) ==
    IF END \in next THEN <<[ev |-> "end", state |-> merged]>> ELSE << >>

Finished(ws) == {ws[i].node : i \in DOMAIN ws}

NextNodes(w, ws, s) == UNION {Successors(w, n, s) : n \in Finished(ws)}

NoTask == [n \in {} |-> << >>]

WithTask(f, n, s) == [m \in DOMAIN f \cup {n} |-> IF m = n THEN s ELSE f[m]]

WithoutTask(f, n) == [m \in DOMAIN f \ {n} |-> f[m]]

----------------------------------------------------------------------------
(* The records the workflows are invoked with *)

With(rec, f, v) == [k \in DOMAIN rec \cup {f} |-> IF k = f THEN v ELSE rec[k]]

QaInputs == {[question |-> "", answer |-> ""]}

BlogInputs == {[topicName |-> x, outline |-> "", blogPost |-> ""] : x \in {"", "topic"}}

BmiInputs == {[weight_kg |-> x, height_m |-> 183] : x \in {45, 70, 90, 110, 125, 150}}

CricketInputs ==
    {[runsScored |-> x, ballsPlayed |-> y, foursHit |-> f, sixesHit |-> g] :
        x \in {0, 23, 50}, y \in {0, 20, 40}, f \in {0, 1, 5}, g \in {0, 3}}

EssayInputs ==
    {[essay |-> "e1"]}
    \cup {[essay |-> "e1", individual_scores |-> x] : x \in {<< >>, <<5000>>}}

QuadraticInputs ==
    {[a |-> x, b |-> y, c |-> z] :
        x \in -MaxCoef..MaxCoef, y \in -MaxCoef..MaxCoef, z \in -MaxCoef..MaxCoef}

SentimentInputs == {[user_review |-> "review"]}

PostInputs ==
    LET base == {[topic |-> "T", iteration |-> i, max_iteration |-> m] :
                    i \in 0..MaxIter, m \in 0..MaxIter}
    IN base \cup {With(With(b, "tweet_history", <<"t0">>), "feedback_history", <<"f0">>) :
                    b \in base}

Inputs(w) ==
    CASE w = "qa" -> QaInputs
      [] w = "blog" -> BlogInputs
      [] w = "bmi" -> BmiInputs
      [] w = "cricket" -> CricketInputs
      [] w = "essay" -> EssayInputs
      [] w = "quadratic" -> QuadraticInputs
      [] w = "sentiment" -> SentimentInputs
      [] w = "post" -> PostInputs

----------------------------------------------------------------------------
(* invoke() *)

\* the first superstep: the nodes START has an edge to
Begin(w, inp) ==
    /\ input' = inp
    /\ state' = InitialState(w, inp)
    /\ pending' = Targets(w, START) \ {END}
    /\ running' = NoTask
    /\ writes' = << >>
    /\ phase' = "running"
    /\ returned' = {}
    /\ trace' = << >>
    /\ step' = 1

Init ==
    /\ wf \in Workflows
    /\ input \in Inputs(wf)
    /\ firstInput = input
    /\ state = InitialState(wf, input)
    /\ pending = Targets(wf, START) \ {END}
    /\ running = NoTask
    /\ writes = << >>
    /\ phase = "running"
    /\ returned = {}
    /\ trace = << >>
    /\ step = 1
    /\ reinvoked = FALSE

\* a scheduled node is called with the state as the superstep found it
StartTask(n) ==
    /\ phase = "running"
    /\ n \in pending
    /\ pending' = pending \ {n}
    /\ running' = WithTask(running, n, state)
    /\ UNCHANGED <<wf, input, firstInput, state, writes, phase, returned, trace, step,
                   reinvoked>>

\* a step function returns its partial state
CompleteTask(n, r) ==
    /\ phase = "running"
    /\ n \in DOMAIN running
    /\ LET res == StepFn(wf, n, running[n], r)
       IN /\ ~res.throws
          /\ writes' = Append(writes, [node |-> n, out |-> res.out])
          /\ trace' = Append(trace, [ev |-> "complete", node |-> n, reply |-> r,
                                     snap |-> running[n], out |-> res.out])
    /\ running' = WithoutTask(running, n)
    /\ UNCHANGED <<wf, input, firstInput, state, pending, phase, returned, step, reinvoked>>

\* a step function throws: invoke() rejects and nothing more of the run is seen
FailTask(n, r) ==
    /\ phase = "running"
    /\ n \in DOMAIN running
    /\ StepFn(wf, n, running[n], r).throws
    /\ phase' = "failed"
    /\ trace' = Append(trace, [ev |-> "throw", node |-> n])
    /\ UNCHANGED <<wf, input, firstInput, state, pending, running, writes, returned,
                   step, reinvoked>>

SuperstepOver ==
    /\ phase = "running"
    /\ pending = {}
    /\ DOMAIN running = {}
    /\ writes # << >>

\* the superstep's outputs are merged and the nodes they lead to are scheduled
Advance ==
    /\ SuperstepOver
    /\ LET merged == ApplyWrites(wf, state, writes)
           next == NextNodes(wf, writes, merged)
       IN /\ next \subseteq Nodes(wf) \cup {END}
          /\ next \ {END} # {}
          /\ step < MaxSteps
          /\ state' = merged
          /\ pending' = next \ {END}
          /\ trace' = trace \o EndEvents(next, merged) \o RouteEvents(wf, writes, merged)
    /\ writes' = << >>
    /\ step' = step + 1
    /\ UNCHANGED <<wf, input, firstInput, running, phase, returned, reinvoked>>

\* the superstep's outputs are merged and no registered node is left to run:
\* invoke() returns the state
Return ==
    /\ SuperstepOver
    /\ LET merged == ApplyWrites(wf, state, writes)
           next == NextNodes(wf, writes, merged)
       IN /\ next \subseteq {END}
          /\ state' = merged
          /\ returned' = {merged}
          /\ trace' = trace \o EndEvents(next, merged) \o RouteEvents(wf, writes, merged)
    /\ writes' = << >>
    /\ phase' = "done"
    /\ UNCHANGED <<wf, input, firstInput, pending, running, step, reinvoked>>

\* the returned state is handed to invoke() again
ReInvoke ==
    /\ phase = "done"
    /\ ~reinvoked
    /\ \E st \in returned : Begin(wf, st)
    /\ reinvoked' = TRUE
    /\ UNCHANGED <<wf, firstInput>>

Next ==
    \/ \E n \in AllNodes : StartTask(n)
    \/ \E n \in AllNodes : \E r \in Responses(wf, n) : CompleteTask(n, r)
    \/ \E n \in AllNodes : \E r \in Responses(wf, n) : FailTask(n, r)
    \/ Advance
    \/ Return
    \/ ReInvoke

Spec == Init /\ [][Next]_vars

\* a started step function eventually settles, and the executor keeps going
FairSpec == Spec /\ WF_vars(Next)

\* the runs of the post generator alone
PostInit == Init /\ wf = "post"

PostFairSpec == PostInit /\ [][Next]_vars /\ WF_vars(Next)

TypeOK ==
    /\ wf \in Workflows
    /\ phase \in {"running", "done", "failed"}
    /\ pending \subseteq Nodes(wf)
    /\ DOMAIN running \subseteq Nodes(wf)
    /\ DOMAIN state \subseteq Fields(wf)
    /\ step \in 1..MaxSteps
    /\ reinvoked \in BOOLEAN

----------------------------------------------------------------------------
(* Reading the log *)

IsComplete(e) == e.ev = "complete"
IsRoute(e) == e.ev = "route"
IsThrow(e) == e.ev = "throw"
IsEnd(e) == e.ev = "end"

\* the steps that returned, in the order they returned
Completes == SelectSeq(trace, IsComplete)

\* the routing decisions, in the order they were taken
Routes == SelectSeq(trace, IsRoute)

CompletedNodes == [i \in 1..Len(Completes) |-> Completes[i].node]

HasCompleted(n) == \E i \in 1..Len(Completes) : Completes[i].node = n

TimesCompleted(n) == Cardinality({i \in 1..Len(Completes) : Completes[i].node = n})

\* a node has been scheduled, called or has returned in the current superstep
Active(n) == n \in pending \/ n \in DOMAIN running \/ n \in Finished(writes)

\* the step output o has been merged into state s (overwrite fields only)
MergedInto(w, o, s) ==
    /\ \A f \in (DOMAIN o.vals \cap Fields(w)) \ ReducerFields(w) :
            Has(s, f) /\ s[f] = o.vals[f]
    /\ \A f \in o.clear : ~Has(s, f)

----------------------------------------------------------------------------
(* C1: in the essay and the cricket workflow the join node (aggregate_analysis,
   generate_summary) is never scheduled, called or finished before all three
   branch nodes have returned and their outputs are merged into the state,
   whatever the order in which the branches start and finish. *)

FanOutWorkflows == {"essay", "cricket"}

JoinNode(w) == IF w = "essay" THEN "aggregate_analysis" ELSE "generate_summary"

BranchNodes(w) ==
    IF w = "essay" THEN {"evaluate_clarity", "depth_analysis", "language_analysis"}
    ELSE {"calculate_strike_rate", "calculate_boundary_percentage",
          "calculate_balls_per_boundary"}

BranchMerged(w, b, s) ==
    \E i \in 1..Len(Completes) :
        /\ Completes[i].node = b
        /\ MergedInto(w, Completes[i].out, s)

C1_JoinAfterAllBranches ==
    (wf \in FanOutWorkflows /\ (Active(JoinNode(wf)) \/ HasCompleted(JoinNode(wf))))
    => /\ \A b \in BranchNodes(wf) : BranchMerged(wf, b, state)
       /\ JoinNode(wf) \in DOMAIN running
            => \A b \in BranchNodes(wf) : BranchMerged(wf, b, running[JoinNode(wf)])

\* aggregate_analysis has been called while depth_analysis was the first and
\* evaluate_clarity the last branch to return
C1_Witness ==
    /\ wf = "essay"
    /\ "aggregate_analysis" \in DOMAIN running
    /\ Len(Completes) = 3
    /\ Completes[1].node = "depth_analysis"
    /\ Completes[3].node = "evaluate_clarity"

----------------------------------------------------------------------------
(* C2: in the post generator, once optimize_post has returned, control goes
   back to evaluate_post, and the run ends only when the router has returned
   "approved" for the tweet evaluated last: a finished run's last step is
   evaluate_post and its last routing decision is "approved". *)

C2_OptimizeReturnsToEvaluate ==
    (wf = "post" /\ phase = "done")
    => /\ Completes # << >>
       /\ Last(Completes).node = "evaluate_post"
       /\ Routes # << >>
       /\ Last(Routes).label = "approved"

----------------------------------------------------------------------------
(* C3: in the post generator every invoke() settles, whatever iteration,
   max_iteration and evaluations it meets, and whenever the router runs on a
   state with iteration > max_iteration it returns "approved". *)

RouterJustRan == trace # << >> /\ IsRoute(Last(trace))

C3_RouterApprovesPastLimit ==
    (wf = "post" /\ RouterJustRan /\ state.iteration > state.max_iteration)
    => Last(trace).label = "approved"

C3_Terminates ==
    /\ [] C3_RouterApprovesPastLimit
    /\ (wf = "post" /\ phase = "running") ~> (phase \in {"done", "failed"})

\* a run has ended although the evaluation asked for an improvement: only the
\* iteration limit made the router return "approved"
C3_Witness ==
    /\ wf = "post"
    /\ phase = "done"
    /\ Routes # << >>
    /\ Last(Routes).label = "approved"
    /\ Read(Last(Completes).snap, "evaluation") = "needs_improvement"

----------------------------------------------------------------------------
(* C4: in the post generator, when the router returns "approved" the workflow
   ends with the evaluated tweet: optimize_post is neither scheduled nor run
   after that decision, and the returned tweet is the tweet evaluate_post was
   called with. *)

RECURSIVE IndexOfLast(_, _)
IndexOfLast(s, n) ==
    IF s = << >> THEN 0
    ELSE IF IsComplete(Last(s)) /\ Last(s).node = n THEN Len(s)
    ELSE IndexOfLast(SubSeq(s, 1, Len(s) - 1), n)

LastCompleteOf(n) == trace[IndexOfLast(trace, n)]

----------------------------------------------------------------------------
(* C5: a step function that throws makes invoke() reject: no state is
   returned, nothing of the run happens after the throw, and no node
   downstream of the failing step is scheduled or run.  A step handed output
   it cannot parse (evaluate_post, review_sentiment, run_diagnosis: anything
   but a JSON object; the essay evaluators: anything the schema rejects)
   never returns an update. *)

JsonSteps == {"evaluate_post", "review_sentiment", "run_diagnosis"}

EvaluatorSteps == {"evaluate_clarity", "depth_analysis", "language_analysis"}

Unparsable(n, r) ==
    \/ n \in JsonSteps /\ r.kind # "json"
    \/ n \in EvaluatorSteps
        /\ ~(/\ r.kind = "json"
             /\ r.feedback # Undefined
             /\ r.scoreIsNumber
             /\ r.score \in 0..10000)

DownstreamOf(n) ==
    CASE n = "ask_question" -> {"llm_answer"}
      [] n = "generate_outline" -> {"blog_post"}
      [] n = "calculate_bmi" -> {"label_bmi"}
      [] n \in EvaluatorSteps -> {"aggregate_analysis"}
      [] n = "review_sentiment" -> {"run_diagnosis", "negative_response",
                                    "positive_response"}
      [] n = "run_diagnosis" -> {"negative_response"}
      [] n = "generate_post" -> {"evaluate_post", "optimize_post"}
      [] n = "evaluate_post" -> {"optimize_post"}
      [] OTHER -> {}

Thrown == {i \in DOMAIN trace : IsThrow(trace[i])}

C5_ErrorPropagates ==
    /\ \A i \in DOMAIN trace :
            IsComplete(trace[i]) => ~Unparsable(trace[i].node, trace[i].reply)
    /\ Thrown # {} =>
            /\ phase = "failed"
            /\ Thrown = {Len(trace)}
            /\ \A m \in DownstreamOf(Last(trace).node) :
                    ~Active(m) /\ ~HasCompleted(m)
    /\ phase = "failed" => Thrown # {}
    /\ phase # "done" => returned = {}

\* evaluate_post was handed text that is no JSON and invoke() rejected
C5_Witness ==
    /\ wf = "post"
    /\ phase = "failed"
    /\ Last(trace).node = "evaluate_post"
    /\ HasCompleted("generate_post")

----------------------------------------------------------------------------
(* C6: in the essay workflow individual_scores accumulates.  With S the
   sequence invoke() was given, the value aggregate_analysis is called with,
   and the value returned, is S followed by the scores of the three
   evaluators, each exactly once, in some order; invoking again with the
   returned state gives the first S followed by six scores. *)

ScoresOf(rec) == OrEmpty(rec, "individual_scores")

IsEvaluatorComplete(e) == IsComplete(e) /\ e.node \in EvaluatorSteps

\* the scores the evaluators returned, in the order they returned
BranchScores ==
    LET done == SelectSeq(trace, IsEvaluatorComplete)
    IN [i \in 1..Len(done) |-> done[i].out.vals.individual_scores[1]]

IsArrangement(xs, ys) ==
    /\ Len(xs) = Len(ys)
    /\ \E p \in Permutations(1..Len(ys)) : \A i \in 1..Len(ys) : xs[i] = ys[p[i]]

SeenByJoin(w) == Active(JoinNode(w)) \/ HasCompleted(JoinNode(w))

C6_ScoresAccumulate ==
    (wf = "essay" /\ SeenByJoin("essay"))
    => LET S == ScoresOf(input)
           X == ScoresOf(state)
       IN /\ \A b \in EvaluatorSteps : TimesCompleted(b) = 1
          /\ Len(X) = Len(S) + 3
          /\ IsPrefix(S, X)
          /\ IsArrangement(SubSeq(X, Len(S) + 1, Len(X)), BranchScores)
          /\ "aggregate_analysis" \in DOMAIN running
                => ScoresOf(running["aggregate_analysis"]) = X
          /\ phase = "done" => returned = {state}
          /\ reinvoked =>
                /\ Len(X) = Len(ScoresOf(firstInput)) + 6
                /\ IsPrefix(ScoresOf(firstInput), X)

\* a second invoke() has returned seven scores, the one it all began with first
C6_Witness ==
    /\ wf = "essay"
    /\ reinvoked
    /\ phase = "done"
    /\ ScoresOf(firstInput) = <<5000>>
    /\ Len(ScoresOf(state)) = 7
    /\ ScoresOf(state)[2] # ScoresOf(state)[3]

----------------------------------------------------------------------------
(* C7: in the post generator tweet_history is the tweet_history invoke() was
   given followed by what every generate_post and optimize_post returned, in
   the order they ran, and feedback_history is the given feedback_history
   followed by the feedback of every evaluate_post; no step of the executor
   shortens either sequence. *)

\* the steps whose outputs are merged into the state
MergedCompletes == SubSeq(Completes, 1, Len(Completes) - Len(writes))

IsTweetStep(e) == e.node \in {"generate_post", "optimize_post"}

IsFeedbackStep(e) == e.node = "evaluate_post"

TweetsWritten ==
    LET es == SelectSeq(MergedCompletes, IsTweetStep)
    IN [i \in 1..Len(es) |-> TextOf(es[i].reply)]

FeedbacksWritten ==
    LET es == SelectSeq(MergedCompletes, IsFeedbackStep)
    IN [i \in 1..Len(es) |-> es[i].reply.feedback]

TweetHistory == OrEmpty(state, "tweet_history")

FeedbackHistory == OrEmpty(state, "feedback_history")

C7_HistoriesNow ==
    wf = "post" =>
        /\ TweetHistory = OrEmpty(input, "tweet_history") \o TweetsWritten
        /\ FeedbackHistory = OrEmpty(input, "feedback_history") \o FeedbacksWritten

C7_HistoriesGrow ==
    wf = "post" =>
        /\ IsPrefix(TweetHistory, TweetHistory')
        /\ IsPrefix(FeedbackHistory, FeedbackHistory')

C7_Histories == [] C7_HistoriesNow /\ [][C7_HistoriesGrow]_vars

\* a run that began with one old tweet and one old feedback has generated,
\* evaluated and optimized
C7_Witness ==
    /\ wf = "post"
    /\ phase = "done"
    /\ TweetHistory = <<"t0", "t1", "t2">>
    /\ FeedbackHistory = <<"f0", "f1">>

----------------------------------------------------------------------------
(* C8: in the quadratic workflow discriminant = b*b - 4*a*c, and exactly one
   root node runs: repeated_roots when it is 0, no_real_roots when it is
   negative, real_roots when it is positive; the other two are never
   scheduled, and result is written exactly once per run. *)

RootNodes == {"real_roots", "repeated_roots", "no_real_roots"}

ExpectedRoot(d) ==
    IF d = 0 THEN "repeated_roots"
    ELSE IF d < 0 THEN "no_real_roots"
    ELSE "real_roots"

Ran(n) == Active(n) \/ HasCompleted(n)

WritesTo(f) ==
    {i \in 1..Len(Completes) :
        f \in DOMAIN Completes[i].out.vals \/ f \in Completes[i].out.clear}

C8_OneRootNode ==
    wf = "quadratic" =>
        LET d == input.b * input.b - 4 * input.a * input.c
        IN /\ (\E n \in RootNodes : Ran(n)) =>
                Has(state, "discriminant") /\ state.discriminant = d
           /\ \A n \in RootNodes : Ran(n) => n = ExpectedRoot(d)
           /\ phase = "done" =>
                /\ TimesCompleted(ExpectedRoot(d)) = 1
                /\ Cardinality(WritesTo("result")) = 1
                /\ Last(Completes).node = ExpectedRoot(d)

\* x^2 + x + 1 has been found to have no real roots
C8_Witness ==
    /\ wf = "quadratic"
    /\ phase = "done"
    /\ input.a = 1 /\ input.b = 1 /\ input.c = 1
    /\ state.discriminant = -3
    /\ state.result.text = "No real roots"

----------------------------------------------------------------------------
(* C9: in the sentiment workflow a review found positive is answered by
   positive_response alone, and one found negative goes through run_diagnosis
   and then negative_response, which is called with the issue_type, tone and
   urgency run_diagnosis wrote; the other branch is never scheduled, and
   response is written exactly once per run. *)

FoundSentiment == Read(LastCompleteOf("review_sentiment").out.vals, "sentiment")

PositivePath == <<"review_sentiment", "positive_response">>

NegativePath == <<"review_sentiment", "run_diagnosis", "negative_response">>

FollowsPath(path) ==
    /\ IsPrefix(CompletedNodes, path)
    /\ \A n \in SentimentNodes : Ran(n) => \E i \in DOMAIN path : path[i] = n
    /\ phase = "done" =>
        /\ CompletedNodes = path
        /\ Cardinality(WritesTo("response")) = 1

C9_SentimentPaths ==
    (wf = "sentiment" /\ HasCompleted("review_sentiment"))
    => /\ FoundSentiment = "positive" => FollowsPath(PositivePath)
       /\ FoundSentiment = "negative" =>
            /\ FollowsPath(NegativePath)
            /\ HasCompleted("negative_response") =>
                 MergedInto("sentiment", LastCompleteOf("run_diagnosis").out,
                            LastCompleteOf("negative_response").snap)

\* a negative review has been diagnosed as an urgent bug and answered
C9_Witness ==
    /\ wf = "sentiment"
    /\ phase = "done"
    /\ Read(state, "sentiment") = "negative"
    /\ Read(state, "issue_type") = "Bug"
    /\ Read(state, "urgency") = "high"
    /\ Read(state, "response") = "r1"

----------------------------------------------------------------------------
(* C10: in the linear workflows (BMI, blog, question and answer) the second
   step is scheduled only once the first has returned and its output is
   merged, it is called with the value the first step wrote, and the returned
   state holds both outputs and every other field as it was given. *)

LinearWorkflows == {"bmi", "blog", "qa"}

FirstStep(w) ==
    CASE w = "bmi" -> "calculate_bmi"
      [] w = "blog" -> "generate_outline"
      [] w = "qa" -> "ask_question"

SecondStep(w) ==
    CASE w = "bmi" -> "label_bmi"
      [] w = "blog" -> "blog_post"
      [] w = "qa" -> "llm_answer"

Touched(o) == DOMAIN o.vals \cup o.clear

C10_LinearOrder ==
    (wf \in LinearWorkflows /\ Ran(SecondStep(wf)))
    => /\ HasCompleted(FirstStep(wf))
       /\ LET first == LastCompleteOf(FirstStep(wf)).out
          IN /\ MergedInto(wf, first, state)
             /\ SecondStep(wf) \in DOMAIN running =>
                    MergedInto(wf, first, running[SecondStep(wf)])
             /\ HasCompleted(SecondStep(wf)) =>
                    MergedInto(wf, first, LastCompleteOf(SecondStep(wf)).snap)
             /\ phase = "done" =>
                    LET second == LastCompleteOf(SecondStep(wf)).out
                    IN /\ CompletedNodes = <<FirstStep(wf), SecondStep(wf)>>
                       /\ MergedInto(wf, second, state)
                       /\ DOMAIN state = DOMAIN input \cup Touched(first) \cup Touched(second)
                       /\ \A f \in DOMAIN input \ (Touched(first) \cup Touched(second)) :
                            state[f] = input[f]

\* 90 kg at 1.83 m: bmi 26.87 was written, then read and labelled
C10_Witness ==
    /\ wf = "bmi"
    /\ phase = "done"
    /\ state.weight_kg = 90
    /\ state.bmi = 2687
    /\ state.category = "Overweight"

----------------------------------------------------------------------------
(* C11: in the cricket workflow each of the three branches writes its own
   field and nothing else (strikeRate, boundaryPercentage, ballsPerBoundary),
   so the three outputs are pairwise disjoint; from the join on, the state
   holds all three, and it is the one state the input determines, whatever
   the order in which the branches started and returned. *)

BranchField(n) ==
    CASE n = "calculate_strike_rate" -> "strikeRate"
      [] n = "calculate_boundary_percentage" -> "boundaryPercentage"
      [] n = "calculate_balls_per_boundary" -> "ballsPerBoundary"

\* the state the input determines: the three statistics of the given numbers
CricketExpected(inp) ==
    LET boundaries == inp.foursHit + inp.sixesHit
        stats == [strikeRate |->
                     IF inp.ballsPlayed = 0 THEN 0
                     ELSE MathRound(TimesHundred(inp.runsScored, inp.ballsPlayed)),
                  boundaryPercentage |->
                     IF inp.runsScored = 0 THEN 0
                     ELSE MathRound(TimesHundred(inp.foursHit * 4 + inp.sixesHit * 6,
                                                 inp.runsScored)),
                  ballsPerBoundary |->
                     IF boundaries = 0 THEN inp.ballsPlayed
                     ELSE MathRound(FDivInt(FromInt(inp.ballsPlayed), boundaries))]
    IN [f \in DOMAIN inp \cup DOMAIN stats |->
            IF f \in DOMAIN stats THEN stats[f] ELSE inp[f]]

C11_DisjointBranchWrites ==
    wf = "cricket" =>
        /\ \A i \in 1..Len(Completes) :
                Completes[i].node \in BranchNodes("cricket") =>
                    Touched(Completes[i].out) = {BranchField(Completes[i].node)}
        /\ \A i, j \in 1..Len(Completes) :
                (i # j /\ {Completes[i].node, Completes[j].node}
                            \subseteq BranchNodes("cricket"))
                => Touched(Completes[i].out) \cap Touched(Completes[j].out) = {}
        /\ SeenByJoin("cricket") => state = CricketExpected(input)
        /\ phase = "done" => returned = {CricketExpected(input)}

\* 50 runs off 20 balls with 5 fours and 3 sixes, the branches returning in
\* the reverse of the order they were declared in
C11_Witness ==
    /\ wf = "cricket"
    /\ phase = "done"
    /\ ~reinvoked
    /\ Completes[1].node = "calculate_balls_per_boundary"
    /\ Completes[3].node = "calculate_strike_rate"
    /\ state.strikeRate = 250
    /\ state.boundaryPercentage = 76
    /\ state.ballsPerBoundary = 3

----------------------------------------------------------------------------
(* C12: in the essay workflow each of evaluate_clarity, depth_analysis and
   language_analysis is called with individual_scores and the three
   *_feedback fields as they were before the fan-out (the state invoke()
   started from), never with what a sibling branch has already returned, in
   every interleaving of the branches. *)

BranchVisibleFields == {"individual_scores", "clarity_feedback",
                        "analysis_feedback", "language_feedback"}

SameOn(a, b, fs) ==
    \A f \in fs : /\ Has(a, f) <=> Has(b, f)
                  /\ Has(a, f) => a[f] = b[f]

PreBranchState == InitialState("essay", input)

C12_BranchesSeePreBranchState ==
    wf = "essay" =>
        /\ \A n \in EvaluatorSteps \cap DOMAIN running :
                SameOn(running[n], PreBranchState, BranchVisibleFields)
        /\ \A i \in 1..Len(Completes) :
                Completes[i].node \in EvaluatorSteps =>
                    SameOn(Completes[i].snap, PreBranchState, BranchVisibleFields)

\* depth_analysis is being run on a state without clarity_feedback although
\* evaluate_clarity has returned its feedback and score
C12_Witness ==
    /\ wf = "essay"
    /\ ~reinvoked
    /\ "evaluate_clarity" \in Finished(writes)
    /\ "depth_analysis" \in DOMAIN running
    /\ pending = {"language_analysis"}
    /\ ~Has(running["depth_analysis"], "clarity_feedback")
    /\ ScoresOf(running["depth_analysis"]) = ScoresOf(input)

----------------------------------------------------------------------------
(* C13: in the cricket workflow generate_summary runs exactly once in every
   invoke() that returns: it is scheduled only when the outputs of the three
   calculation nodes are merged, it is called with all three statistics, and
   it is the last step before the run ends, although
   calculate_balls_per_boundary also has an edge to END. *)

----------------------------------------------------------------------------
(* C14: END is terminal.  In every workflow, once a finished node has handed
   control to END (by an edge or by its router), the run is over: no node is
   scheduled, called or finished afterwards, and the state invoke() returns is
   the state as it was when END was reached. *)

EndsReached == SelectSeq(trace, IsEnd)

FirstEnd == CHOOSE i \in DOMAIN trace : IsEnd(trace[i]) /\ \A j \in 1..(i - 1) : ~IsEnd(trace[j])

----------------------------------------------------------------------------
(* C15: every graph the repository compiles has exactly one edge, conditional
   or unconditional, leaving START. *)

StartEdges(w) == {e \in Edges(w) : e[1] = START}

EdgesLeavingStart(w) ==
    Cardinality(StartEdges(w)) + (IF START \in RouterNodes(w) THEN 1 ELSE 0)

C15_OneStartEdge == EdgesLeavingStart(wf) = 1

(* C15, amended: no graph has a conditional edge leaving START; the essay and
   the cricket graph have three unconditional edges leaving START, one to each
   branch of their fan-out, every other graph has exactly one; the first
   superstep of a run is made of exactly the nodes those edges name. *)

C15_StartEdges ==
    /\ START \notin RouterNodes(wf)
    /\ EdgesLeavingStart(wf) = IF wf \in FanOutWorkflows THEN 3 ELSE 1
    /\ wf \in FanOutWorkflows => Targets(wf, START) = BranchNodes(wf)
    /\ (step = 1 /\ phase = "running") =>
            pending \cup DOMAIN running \cup Finished(writes) = Targets(wf, START)

\* the three nodes START has an edge to in the cricket graph are all being run
C15_Witness ==
    /\ wf = "cricket"
    /\ step = 1
    /\ DOMAIN running = {"calculate_strike_rate", "calculate_boundary_percentage",
                         "calculate_balls_per_boundary"}

----------------------------------------------------------------------------
(* C16: in every graph of the repository every registered node has at least
   one outgoing edge (unconditional or conditional) and at least one incoming
   edge (a router destination counts), and END can be reached from every
   registered node. *)

\* the edges of the graph together with what its router can resolve to
Arcs(w) ==
    Edges(w) \cup {<<n, Resolve(w, n, l)>> : n \in RouterNodes(w), l \in RouterLabels(w)}

RECURSIVE BackFrom(_, _)
BackFrom(w, reached) ==
    LET more == reached \cup {a[1] : a \in {x \in Arcs(w) : x[2] \in reached}}
    IN IF more = reached THEN reached ELSE BackFrom(w, more)

CanReachEnd(w) == BackFrom(w, {END})

C16_EveryNodeConnected ==
    \A n \in Nodes(wf) :
        /\ \E a \in Arcs(wf) : a[1] = n
        /\ \E a \in Arcs(wf) : a[2] = n
        /\ n \in CanReachEnd(wf)

----------------------------------------------------------------------------
(* C17: the field names of the state are those the Annotation declares: the
   state, every snapshot a step is called with and the state invoke() returns
   never hold a field that is not declared (a declared field that is unset
   reads as undefined).  generate_summary returns summary, which
   CricketAnnotation does not declare: the state never gets a summary field
   and is the same after that output is merged as before. *)

C17_FieldSetFixed ==
    /\ DOMAIN state \subseteq Fields(wf)
    /\ \A n \in DOMAIN running : DOMAIN running[n] \subseteq Fields(wf)
    /\ \A s \in returned : DOMAIN s \subseteq Fields(wf)
    /\ wf = "cricket" =>
            /\ ~Has(state, "summary")
            /\ \A s \in returned : ~Has(s, "summary")
            /\ HasCompleted("generate_summary") =>
                    /\ Has(LastCompleteOf("generate_summary").out.vals, "summary")
                    /\ state = LastCompleteOf("generate_summary").snap

\* generate_summary has returned a summary and invoke() a state without one
C17_Witness ==
    /\ wf = "cricket"
    /\ phase = "done"
    /\ Has(Last(Completes).out.vals, "summary")
    /\ returned = {state}
    /\ DOMAIN state = Fields("cricket")

----------------------------------------------------------------------------
(* C18: in the three workflows with conditional edges (quadratic, sentiment,
   post generator) the label the router returns always resolves to a
   registered node or END, also when sentiment or evaluation holds an
   unexpected value or none: every routing decision taken names such a
   destination, every superstep that is over can be routed, and invoke()
   rejects only when a step function threw. *)

RoutedWorkflows == {"quadratic", "sentiment", "post"}

Routable(w, dest) == dest \in Nodes(w) \cup {END}

C18_RoutersTotal ==
    wf \in RoutedWorkflows =>
        /\ \A i \in 1..Len(Routes) :
                /\ Routes[i].label \in RouterLabels(wf)
                /\ Routable(wf, Routes[i].dest)
        /\ SuperstepOver =>
                LET merged == ApplyWrites(wf, state, writes)
                IN \A n \in Finished(writes) \cap RouterNodes(wf) :
                        /\ RouteLabel(wf, n, merged) \in RouterLabels(wf)
                        /\ Routable(wf, Resolve(wf, n, RouteLabel(wf, n, merged)))
        /\ phase = "failed" => Thrown # {}

\* a review found neither positive nor negative has been sent to run_diagnosis
C18_Witness ==
    /\ wf = "sentiment"
    /\ Read(state, "sentiment") = "neutral"
    /\ Routes # << >>
    /\ Last(Routes).dest = "run_diagnosis"
    /\ HasCompleted("run_diagnosis")

----------------------------------------------------------------------------
(* C20: in the post generator generate_post runs exactly once per invoke(),
   and the number of times optimize_post ran equals the number of times the
   router returned "needs_improvement", which equals the returned iteration
   minus the iteration invoke() was given. *)

TimesRouted(label) == Cardinality({i \in 1..Len(Routes) : Routes[i].label = label})

----------------------------------------------------------------------------
(* C21: no node runs more than once per pass.  In the post generator
   optimize_post, which both the unconditional edge out of evaluate_post and
   the label needs_improvement name, runs at most once for each time
   evaluate_post returned; in every workflow, none of whose declared graphs
   has a cycle, every node is scheduled and called at most once per invoke();
   a step that threw was called once and is not called again. *)

\* the number of times node n has been called in the current run
Executions(n) ==
    TimesCompleted(n) + (IF n \in DOMAIN running THEN 1 ELSE 0)

Scheduled(n) == Executions(n) + (IF n \in pending THEN 1 ELSE 0)

C21_OncePerPass ==
    /\ \A n \in Nodes(wf) : Scheduled(n) <= 1
    /\ wf = "post" => Scheduled("optimize_post") <= TimesCompleted("evaluate_post")
    /\ phase = "failed" => Executions(Last(trace).node) = 1

\* the router returned needs_improvement, so that the conditional and the
\* unconditional edge both named optimize_post, and optimize_post ran once
C21_Witness ==
    /\ wf = "post"
    /\ phase = "done"
    /\ Routes # << >>
    /\ Last(Routes).label = "needs_improvement"
    /\ Last(Routes).dest = "optimize_post"
    /\ <<"evaluate_post", "optimize_post">> \in Edges("post")
    /\ TimesCompleted("optimize_post") = 1

----------------------------------------------------------------------------
(* C22: in the essay workflow every score an evaluator appends is a number
   within [0, 10] (a reply whose score is out of range or not a number never
   returns an update); when invoke() is given no individual_scores,
   aggregate_analysis reads exactly three scores and sets average_score to
   their mean, which is within [0, 10]; the average of an empty list is 0. *)

InRange(v) == v >= MinScore * ScoreUnit /\ v <= MaxScore * ScoreUnit

IsJoinComplete(e) == IsComplete(e) /\ e.node = "aggregate_analysis"

EvaluatorScoresInRange ==
    /\ \A i \in DOMAIN trace :
            IsEvaluatorComplete(trace[i]) =>
                /\ trace[i].reply.scoreIsNumber
                /\ InRange(trace[i].reply.score)
                /\ trace[i].out.vals.individual_scores = <<trace[i].reply.score>>
    /\ Average(<< >>) = 0

\* average_score (hundredths) against the sum of three scores (thousandths)
MeanOfThree(e, slack) ==
    LET X == ScoresOf(e.snap)
        a == e.out.vals.average_score
    IN /\ Len(X) = 3
       /\ \A k \in 1..Len(X) : InRange(X[k])
       /\ Abs(a * 30 - SumSeq(X)) <= slack
       /\ a >= MinScore * 100
       /\ a <= MaxScore * 100

\* the statement as claimed: average_score is the mean itself
C22_AverageIsMean ==
    wf = "essay" =>
        /\ EvaluatorScoresInRange
        /\ \A i \in DOMAIN trace :
                (IsJoinComplete(trace[i]) /\ ScoresOf(input) = << >>)
                    => MeanOfThree(trace[i], 0)

\* average_score is a two-decimal number no further than 0.005 from the mean
C22_AverageIsRoundedMean ==
    wf = "essay" =>
        /\ EvaluatorScoresInRange
        /\ \A i \in DOMAIN trace :
                (IsJoinComplete(trace[i]) /\ ScoresOf(input) = << >>)
                    => MeanOfThree(trace[i], 15)

\* a run given no scores returned an average that is not the mean itself
C22_Witness ==
    /\ wf = "essay"
    /\ phase = "done"
    /\ ScoresOf(input) = << >>
    /\ Len(ScoresOf(state)) = 3
    /\ Has(state, "average_score")
    /\ state.average_score * 30 # SumSeq(ScoresOf(state))

----------------------------------------------------------------------------
(* C27: in the essay workflow the average_score that invoke() returns does
   not depend on the order in which the three evaluators finish: had the
   same three scores been appended in any other order, aggregate_analysis
   would have computed the same average_score. *)

\* the scores aggregate_analysis reads when the evaluators finish in order p
ScoresInOrder(p) ==
    ScoresOf(input) \o [i \in 1..Len(BranchScores) |-> BranchScores[p[i]]]

C27_OrderIndependentAverage ==
    (wf = "essay" /\ phase = "done") =>
        \A p \in Permutations(1..Len(BranchScores)) :
            Average(ScoresInOrder(p)) = state.average_score

----------------------------------------------------------------------------
(* C23: in the post workflow, once the output of generate_post is merged,
   tweet is the last element of tweet_history, and once the output of
   evaluate_post is merged, feedback is the last element of
   feedback_history: in the state, in the state every later step is called
   with, and in the state invoke() returns. *)

\* the output of n has been merged into the state
HasMerged(n) == HasCompleted(n) /\ n \notin Finished(writes)

LatestIs(s, f, history) ==
    /\ OrEmpty(s, history) # << >>
    /\ Read(s, f) = Last(OrEmpty(s, history))

PostStatesSeen == {state} \cup returned \cup {running[n] : n \in DOMAIN running}

C23_LatestIsLastOfHistory ==
    wf = "post" =>
        /\ HasMerged("generate_post") =>
                \A s \in PostStatesSeen : LatestIs(s, "tweet", "tweet_history")
        /\ HasMerged("evaluate_post") =>
                \A s \in PostStatesSeen : LatestIs(s, "feedback", "feedback_history")

\* the rewrite of optimize_post is the tweet returned, after a history given
\* to invoke(), a first tweet and a feedback
C23_Witness ==
    /\ wf = "post"
    /\ phase = "done"
    /\ HasCompleted("optimize_post")
    /\ Has(input, "tweet_history")
    /\ \E s \in returned :
            /\ Len(s.tweet_history) = 3
            /\ Has(s, "tweet") /\ s.tweet = s.tweet_history[3]
            /\ s.tweet # s.tweet_history[2]
            /\ Has(s, "feedback") /\ s.feedback = Last(s.feedback_history)

----------------------------------------------------------------------------
(* C24: whenever invoke() of the post workflow returns, the returned state
   has evaluation = "approved" or iteration > max_iteration. *)

C24_ReturnedApprovedOrExhausted ==
    (wf = "post" /\ phase = "done") =>
        \A s \in returned :
            \/ Read(s, "evaluation") = "approved"
            \/ s.iteration > s.max_iteration

----------------------------------------------------------------------------
(* C25: in the post workflow, for an invoke() given iteration i and
   max_iteration m with i <= m, optimize_post is called at most m - i + 1
   times and evaluate_post at most m - i + 2 times, whatever the LLM
   returns. *)

C25_RefinementBounded ==
    (wf = "post" /\ input.iteration <= input.max_iteration) =>
        /\ Executions("optimize_post") <= input.max_iteration - input.iteration + 1
        /\ Executions("evaluate_post") <= input.max_iteration - input.iteration + 2

\* optimize_post has used the one call that i = m leaves it
C25_Witness ==
    /\ wf = "post"
    /\ input.iteration = input.max_iteration
    /\ phase = "done"
    /\ TimesCompleted("optimize_post") = 1
    /\ TimesCompleted("evaluate_post") = 1
    /\ state.iteration = input.max_iteration + 1

----------------------------------------------------------------------------
(* C26: in the post workflow a step changes only its own fields:
   generate_post tweet and tweet_history; evaluate_post evaluation, feedback
   and feedback_history; optimize_post iteration, tweet and tweet_history,
   and its iteration is the one it read plus 1.  So topic and max_iteration
   stay as invoke() was given them, and iteration is the given one plus the
   number of optimize_post outputs merged. *)

\* the fields a step of the post workflow may set or unset
MayTouch(n) ==
    CASE n = "generate_post" -> {"tweet", "tweet_history"}
      [] n = "evaluate_post" -> {"evaluation", "feedback", "feedback_history"}
      [] n = "optimize_post" -> {"iteration", "tweet", "tweet_history"}

TimesMerged(n) == TimesCompleted(n) - (IF n \in Finished(writes) THEN 1 ELSE 0)

C26_FrameEffects ==
    wf = "post" =>
        /\ \A i \in 1..Len(Completes) :
                /\ Touched(Completes[i].out) \subseteq MayTouch(Completes[i].node)
                /\ Completes[i].node = "optimize_post" =>
                        Completes[i].out.vals.iteration = Completes[i].snap.iteration + 1
        /\ \A s \in PostStatesSeen :
                /\ Read(s, "topic") = Read(input, "topic")
                /\ Read(s, "max_iteration") = Read(input, "max_iteration")
        /\ state.iteration = input.iteration + TimesMerged("optimize_post")

\* all three steps have written and the returned iteration is one higher
C26_Witness ==
    /\ wf = "post"
    /\ phase = "done"
    /\ \A n \in PostNodes : TimesMerged(n) = 1
    /\ \E i \in 1..Len(Completes) :
            Touched(Completes[i].out) = {"iteration", "tweet", "tweet_history"}
    /\ \E s \in returned : s.iteration = input.iteration + 1 /\ s.topic = "T"

----------------------------------------------------------------------------
(* C28: in the two sequential LLM workflows a step handed a response without
   text (null, no content field, an empty content array, a first content
   item without text) does not fail and writes "No answer returned":
   llm_answer to answer, generate_outline to outline, blog_post to
   blogPost. *)

LlmTextSteps == {"llm_answer", "generate_outline", "blog_post"}

TextField(n) ==
    CASE n = "llm_answer" -> "answer"
      [] n = "generate_outline" -> "outline"
      [] n = "blog_post" -> "blogPost"

NoTextResponses(n) ==
    {r \in Responses(wf, n) :
        r.shape \in {"nullish", "no_content", "empty_content", "no_text"}}

\* whichever response without text a step that is being run gets, it returns
\* the fallback; and so did every step that has returned
C28_FallbackOnNoText ==
    wf \in {"qa", "blog"} =>
        /\ \A n \in DOMAIN running \cap LlmTextSteps :
            \A r \in NoTextResponses(n) :
                LET res == StepFn(wf, n, running[n], r)
                IN /\ ~res.throws
                   /\ res.out.vals[TextField(n)] = Fallback
        /\ \A i \in 1..Len(Completes) :
                (/\ Completes[i].node \in LlmTextSteps
                 /\ Completes[i].reply.shape # "text")
                    => Completes[i].out.vals[TextField(Completes[i].node)] = Fallback

----------------------------------------------------------------------------
(* C29: in the cricket workflow no calculation step fails on a zero divisor:
   ballsPlayed = 0 gives strikeRate 0, runsScored = 0 gives
   boundaryPercentage 0, foursHit + sixesHit = 0 gives ballsPerBoundary =
   ballsPlayed; otherwise each result is the value of the formula rounded to
   the nearest integer: round(100 * runsScored / ballsPlayed),
   round(100 * (4 * foursHit + 6 * sixesHit) / runsScored),
   round(ballsPlayed / (foursHit + sixesHit)). *)

FormulaValue(n, s) ==
    CASE n = "calculate_strike_rate" ->
            IF s.ballsPlayed = 0 THEN 0
            ELSE RoundDiv(100 * s.runsScored, s.ballsPlayed)
      [] n = "calculate_boundary_percentage" ->
            IF s.runsScored = 0 THEN 0
            ELSE RoundDiv(100 * (4 * s.foursHit + 6 * s.sixesHit), s.runsScored)
      [] n = "calculate_balls_per_boundary" ->
            IF s.foursHit + s.sixesHit = 0 THEN s.ballsPlayed
            ELSE RoundDiv(s.ballsPlayed, s.foursHit + s.sixesHit)

C29_CricketFormulas ==
    wf = "cricket" =>
        /\ phase # "failed"
        /\ \A i \in 1..Len(Completes) :
                Completes[i].node \in BranchNodes("cricket") =>
                    Completes[i].out.vals[BranchField(Completes[i].node)]
                        = FormulaValue(Completes[i].node, Completes[i].snap)

====
